---- MODULE Spec2Model ----
(***************************************************************************)
(* Model of the file-name and OBJ-text utilities of the maya-scripts       *)
(* pipeline and of the background render loop.                             *)
(*                                                                         *)
(* A Python str is a sequence of one-character strings, so that split,     *)
(* slicing, int(), str(), zfill and printf-style "%" formatting are        *)
(* computed the way Python computes them.                                  *)
(***************************************************************************)
EXTENDS Integers, Sequences, FiniteSets, TLC

VARIABLES
    \* ---- assemble_clothes.get_meta_info
    dir,          \* the files os.walk yields for input_dir (a set: the order is the file system's)
    visited,      \* files the loop has already handled
    start_frame,  \* local start_frame
    end_frame,    \* local end_frame
    parts,        \* local parts
    format,       \* local format (Unbound before the first iteration)
    mpc,          \* "idle" | "walk" | "returned" | "raised"
    entries,      \* ghost: what each file of dir was composed from
    \* ---- seperate_obj_sequence
    sepIn,        \* files of input_dir still to be separated
    sepFile,      \* input_filepath's basename of the running seperate_obj call
    results,      \* length of the list polySeparate returned
    index,        \* loop variable of seperate_obj
    outDir,       \* file names present in output_dir
    exported,     \* ghost: one record per export: input file, its frame, index, written name
    sepSource,    \* ghost: the input files, each with its frame number and its connected pieces
    spc,          \* "idle" | "walk" | "export" | "done"
    \* ---- save_obj_sequence.save_objs
    so_start_frame,  \* argument start_frame
    so_end_frame,    \* argument end_frame
    save_pre_frame,  \* argument save_pre_frame
    save_per_frame,  \* the module's global save_per_frame (NoGlobal when nothing defined it)
    so_frame,        \* loop variable frame
    so_i,            \* loop variable i
    so_index,        \* local index
    saved,           \* the exports made: file name and the time the timeline was set to
    sopc,            \* "idle" | "frame" | "inner" | "done" | "raised"
    \* ---- simplify_obj_sequence.process_obj and resume_obj.process_obj
    input_file,      \* the lines of the file the running process_obj reads
    read_pos,        \* how many of them fp.readline() has returned
    new_lines,       \* local new_lines
    options,         \* the running call's arguments after input_file
    simplified_from, \* ghost: input and options of the simplify call whose output is read
    opc,             \* "idle" | "simplify" | "simplified" | "resume" | "resumed"
    \* ---- rendering/background_render
    parallelThreadNum,  \* the script's setting parallelThreadNum
    fsLen,           \* number of scene files os.walk yields for base
    subarrays,       \* the batches of task indices
    arr_idx,         \* which subarray `for arr in subarrays` is at (1-based)
    arr_pos,         \* which element `for i in arr` is at (1-based)
    threads,         \* the list threads: task indices in the order appended
    join_pos,        \* which element `for thread in threads` is at (1-based)
    tpc,             \* per task: "none" | "system" | "load" | "store" | "done"
    loaded,          \* per task: the value of pbar.n its update has read
    pbar_n,          \* pbar.n
    sleeps,          \* ghost: how many time.sleep(1) calls have returned
    executed,        \* ghost: per task, how many times os.system ran its command
    rpc,             \* "idle" | "start" | "sleep" | "append" | "join" | "done"
    \* ---- scene_assembly/background/assemble_scenes, prefix and suffix of a directory
    filenames,       \* what os.listdir returned, in its order
    name_idx,        \* which element `for name in filenames` is at (1-based)
    clothPrefix,     \* clothPrefix (obstaclePrefix in the loop over the obstacles)
    clothSuffix,     \* clothSuffix (obstacleSuffix in the loop over the obstacles)
    ipc,             \* "idle" | "loop" | "inferred"
    \* ---- assemble_clothes, the script's main part
    scene,           \* the mesh objects of the Maya scene: imported file and material, in import order
    asm_frame,       \* loop variable frame
    asm_part,        \* loop variable part
    saved_scenes,    \* the scenes saved: output name, frame and the mesh objects in it
    asm_error,       \* the exception that ended the script, "" so far
    apc,             \* "idle" | "meta" | "delete" | "import" | "save" | "done" | "raised"
    \* ---- mesh_processing/fbx_to_obj_sequence.ObjSequnceConvertor
    animationRange,  \* self.animationRange: start and end
    startFromTpose,  \* argument startFromTpose of run
    startFrame,      \* startFrame of run, then of __convert
    endFrame,        \* endFrame of run, then of __convert
    endIsFloat,      \* whether endFrame is the float findKeyframe returned
    objPerFrame,     \* argument objPerFrame
    renumberFrame,   \* renumberFrame of run, then of __convert
    startNumber,     \* argument startNumber
    cv_digits,       \* digits of run, then of __convert
    exportBaseName,  \* exportBaseName of run, then of __convert
    cv_frames,       \* local frames of __convert, each frame times objPerFrame
    cv_frame,        \* local frame of __convert, times objPerFrame
    obj_files,       \* the .obj files in exportDir
    cvpc,            \* "idle" | "call" | "frames" | "returned" | "raised"
    \* ---- assemble_clothes.createAiStandardSurfaceMaterial
    config,          \* argument config: the fields present, each with its value
    shader,          \* the attributes of the aiStandardSurface node the call created
    mtlpc            \* "idle" | "base" | "specular" | "transmission" | "subsurface" |
                     \* "geometry" | "return" | "returned" | "raised"

metaVars == <<dir, visited, start_frame, end_frame, parts, format, mpc, entries>>
sepVars  == <<sepIn, sepFile, results, index, outDir, exported, sepSource, spc>>
saveVars == <<so_start_frame, so_end_frame, save_pre_frame, save_per_frame,
              so_frame, so_i, so_index, saved, sopc>>
objVars  == <<input_file, read_pos, new_lines, options, simplified_from, opc>>
renderVars == <<parallelThreadNum, fsLen, subarrays, arr_idx, arr_pos, threads, join_pos, tpc, loaded,
                pbar_n, sleeps, executed, rpc>>
inferVars == <<filenames, name_idx, clothPrefix, clothSuffix, ipc>>
asmVars  == <<scene, asm_frame, asm_part, saved_scenes, asm_error, apc>>
cvVars   == <<animationRange, startFromTpose, startFrame, endFrame, endIsFloat, objPerFrame,
              renumberFrame, startNumber, cv_digits, exportBaseName, cv_frames, cv_frame, obj_files, cvpc>>
mtlVars  == <<config, shader, mtlpc>>
vars     == <<metaVars, sepVars, saveVars, objVars, renderVars, inferVars, asmVars, cvVars, mtlVars>>

----------------------------------------------------------------------------
(* Bounds of the model *)

\* largest number of files in a directory handed to get_meta_info
MaxFiles == 3
\* largest part number in a file name of an input directory
MaxPart == 1

----------------------------------------------------------------------------
(* Python str helpers *)

DigitSeq == <<"0", "1", "2", "3", "4", "5", "6", "7", "8", "9">>

IsDigit(c) == \E d \in 1..10 : DigitSeq[d] = c

DigitVal(c) == (CHOOSE d \in 1..10 : DigitSeq[d] = c) - 1

\* s[from:] with a 0-based index, as Python slices (an index past the end gives "")
SliceFrom(s, from) ==
    IF from >= Len(s) THEN << >> ELSE SubSeq(s, from + 1, Len(s))

\* s[:to] with a 0-based index
SliceTo(s, to) ==
    IF to >= Len(s) THEN s ELSE SubSeq(s, 1, to)

RECURSIVE StrOfNat(_)
\* str(n) for n >= 0
StrOfNat(n) ==
    IF n < 10 THEN << DigitSeq[n + 1] >>
    ELSE StrOfNat(n \div 10) \o << DigitSeq[(n % 10) + 1] >>

\* whether int(s) succeeds; the strings met here hold no sign, blank or "_"
IsIntLiteral(s) == Len(s) > 0 /\ \A i \in 1..Len(s) : IsDigit(s[i])

RECURSIVE IntOf(_)
\* int(s) of a digit string
IntOf(s) ==
    IF Len(s) = 0 THEN 0
    ELSE 10 * IntOf(SubSeq(s, 1, Len(s) - 1)) + DigitVal(s[Len(s)])

RECURSIVE Zeros(_)
Zeros(n) == IF n <= 0 THEN << >> ELSE << "0" >> \o Zeros(n - 1)

\* s.zfill(width) of an unsigned digit string
ZFill(s, width) == Zeros(width - Len(s)) \o s

RECURSIVE Split(_, _)
\* s.split(sep) for a one-character separator: the pieces between separators
Split(s, sep) ==
    IF \A i \in 1..Len(s) : s[i] # sep THEN << s >>
    ELSE LET k == CHOOSE i \in 1..Len(s) :
                     s[i] = sep /\ \A j \in 1..(i - 1) : s[j] # sep
         IN  << SubSeq(s, 1, k - 1) >> \o Split(SubSeq(s, k + 1, Len(s)), sep)

\* re.search(r"\d", s).start(): 0-based index of the first digit, -1 for no match
FirstDigitIndex(s) ==
    IF \A i \in 1..Len(s) : ~IsDigit(s[i]) THEN -1
    ELSE (CHOOSE i \in 1..Len(s) :
              IsDigit(s[i]) /\ \A j \in 1..(i - 1) : ~IsDigit(s[j])) - 1

RECURSIVE SkipWhile(_, _, _)
\* first index >= i of fmt whose character is not in chars
SkipWhile(fmt, i, chars) ==
    IF i <= Len(fmt) /\ fmt[i] \in chars THEN SkipWhile(fmt, i + 1, chars) ELSE i

FormatFailure == [ok |-> FALSE, out |-> << >>]

RECURSIVE FormatFrom(_, _, _)
\* fmt % args from position i on: "%%" is a literal percent sign and consumes
\* no argument, "%0<width>d" consumes one integer argument; an incomplete or
\* unknown conversion, a missing argument and an argument left over all raise.
FormatFrom(fmt, i, args) ==
    IF i > Len(fmt) THEN [ok |-> args = << >>, out |-> << >>]
    ELSE IF fmt[i] # "%" THEN
        LET rest == FormatFrom(fmt, i + 1, args)
        IN  [ok |-> rest.ok, out |-> << fmt[i] >> \o rest.out]
    ELSE IF i + 1 > Len(fmt) THEN FormatFailure
    ELSE IF fmt[i + 1] = "%" THEN
        LET rest == FormatFrom(fmt, i + 2, args)
        IN  [ok |-> rest.ok, out |-> << "%" >> \o rest.out]
    ELSE
        LET j == SkipWhile(fmt, i + 1, {"0"})
            k == SkipWhile(fmt, j, {DigitSeq[d] : d \in 1..10})
        IN  IF k > Len(fmt) \/ fmt[k] # "d" \/ args = << >> THEN FormatFailure
            ELSE LET width == IntOf(SubSeq(fmt, j, k - 1))
                     digits == StrOfNat(Head(args))
                     field == IF j > i + 1 THEN ZFill(digits, width) ELSE digits
                     rest == FormatFrom(fmt, k + 1, Tail(args))
                 IN  [ok |-> rest.ok, out |-> field \o rest.out]

\* format % args
PercentFormat(fmt, args) == FormatFrom(fmt, 1, args)

Min(S) == CHOOSE x \in S : \A y \in S : x <= y
Max(S) == CHOOSE x \in S : \A y \in S : x >= y

----------------------------------------------------------------------------
(* assemble_clothes.get_meta_info *)

\* the local `format` before any file has been handled
Unbound == << >>

ParseFailure == [ok |-> FALSE, frame |-> 0, part |-> 0, format |-> Unbound]

\* the part number taken for the number of parts
PartNumberNotCounted(part_str) == IntOf(part_str)

\* part = int(part_str) + 1
PartNumber(part_str) == IntOf(part_str) + 1

\* format = prefix_str + "%0" + str(len(frame_str)) + "d_%0" + str(len(part_str)) + "d.obj"
FormatWithPart(prefix_str, frame_str, part_str) ==
    prefix_str \o << "%", "0" >> \o StrOfNat(Len(frame_str))
               \o << "d", "_", "%", "0" >> \o StrOfNat(Len(part_str))
               \o << "d", ".", "o", "b", "j" >>

\* format = prefix_str + "%0" + str(len(frame_str)) + "d.obj"
FormatNoPart(prefix_str, frame_str) ==
    prefix_str \o << "%", "0" >> \o StrOfNat(Len(frame_str))
               \o << "d", ".", "o", "b", "j" >>

\* One iteration of the loop over the files, up to the three accumulations:
\* the frame, the part and the format the file gives, or the exception raised
\* (re.search finding no digit, int() of a non-number, more than one "_").
ParseFile(file) ==
    LET ret == Split(file, "_")
        frame_number_start_index == FirstDigitIndex(file)
        prefix_str == SliceTo(file, frame_number_start_index)
    IN  IF frame_number_start_index < 0 THEN ParseFailure
        ELSE IF Len(ret) = 2 THEN
            LET frame_str == SliceFrom(ret[1], frame_number_start_index)
                part_str == Split(ret[2], ".")[1]
            IN  IF ~IsIntLiteral(frame_str) \/ ~IsIntLiteral(part_str)
                THEN ParseFailure
                ELSE [ok |-> TRUE,
                      frame |-> IntOf(frame_str),
                      part |-> PartNumber(part_str),
                      format |-> FormatWithPart(prefix_str, frame_str, part_str)]
        ELSE IF Len(ret) = 1 THEN
            LET frame_str == SliceFrom(Split(file, ".")[1], frame_number_start_index)
            IN  IF ~IsIntLiteral(frame_str) THEN ParseFailure
                ELSE [ok |-> TRUE,
                      frame |-> IntOf(frame_str),
                      part |-> 0,
                      format |-> FormatNoPart(prefix_str, frame_str)]
        ELSE ParseFailure

\* parts = max(parts, part)
AccumulateParts(old, part) == IF part > old THEN part ELSE old

\* start_frame = min(start_frame, frame)
AccumulateStart(old, frame) == IF frame < old THEN frame ELSE old

\* end_frame = max(end_frame, frame)
AccumulateEnd(old, frame) == IF frame > old THEN frame ELSE old

\* get_meta_info(input_dir) is called: the locals before the loop
MetaBegin(files) ==
    /\ dir' = files
    /\ visited' = {}
    /\ start_frame' = 9999999
    /\ end_frame' = -9999999
    /\ parts' = 0
    /\ format' = Unbound
    /\ mpc' = "walk"

\* the loop body, for whichever file os.walk yields next
MetaVisit ==
    /\ mpc = "walk"
    /\ \E file \in dir \ visited :
        LET p == ParseFile(file)
        IN  /\ visited' = visited \cup {file}
            /\ IF p.ok
               THEN /\ parts' = AccumulateParts(parts, p.part)
                    /\ start_frame' = AccumulateStart(start_frame, p.frame)
                    /\ end_frame' = AccumulateEnd(end_frame, p.frame)
                    /\ format' = p.format
                    /\ mpc' = "walk"
               ELSE /\ mpc' = "raised"
                    /\ UNCHANGED <<parts, start_frame, end_frame, format>>
    /\ UNCHANGED <<dir, entries>>

\* the return statement; `format` is unbound when no file was handled
MetaReturn ==
    /\ mpc = "walk"
    /\ visited = dir
    /\ mpc' = IF format = Unbound THEN "raised" ELSE "returned"
    /\ UNCHANGED <<dir, visited, start_frame, end_frame, parts, format, entries>>

MetaIdle ==
    /\ dir = {}
    /\ visited = {}
    /\ start_frame = 9999999
    /\ end_frame = -9999999
    /\ parts = 0
    /\ format = Unbound
    /\ mpc = "idle"
    /\ entries = {}

(* Input directories that follow the frame sequence convention
   prefix + zero-padded frame [+ "_" + zero-padded part] + ".obj" *)

Prefixes == { << >>, << "c" >>, << "c", "." >>, << "c", "%" >> }
FrameNumbers == {0, 21, 10000000}
FrameWidths == {3, 8}
PartWidths == {2, 3}

ConventionName(prefix, fw, pw, frame, hasPart, part) ==
    prefix \o ZFill(StrOfNat(frame), fw)
           \o (IF hasPart THEN << "_" >> \o ZFill(StrOfNat(part), pw) ELSE << >>)
           \o << ".", "o", "b", "j" >>

\* the files a directory of one prefix and one pair of digit widths may hold
Candidates(prefix, fw, pw) ==
    { [file |-> ConventionName(prefix, fw, pw, f, hp, p),
       frame |-> f, hasPart |-> hp, part |-> IF hp THEN p ELSE 0] :
        f \in {n \in FrameNumbers : n < 10 ^ fw},
        hp \in BOOLEAN,
        p \in 0..MaxPart }

MetaInit ==
    /\ \E prefix \in Prefixes, fw \in FrameWidths, pw \in PartWidths :
        \E E \in SUBSET Candidates(prefix, fw, pw) :
            /\ Cardinality(E) <= MaxFiles
            /\ entries = E
            /\ dir = {e.file : e \in E}
    /\ visited = {}
    /\ start_frame = 9999999
    /\ end_frame = -9999999
    /\ parts = 0
    /\ format = Unbound
    /\ mpc = "walk"


----------------------------------------------------------------------------
(* mesh_processing/seperate_obj_sequence *)

\* the default of seperate_obj's parameter `padding`
padding == 3

\* most connected pieces of one input mesh
MaxPieces == 3

ObjSuffix == << ".", "o", "b", "j" >>

\* s.endswith(suffix)
EndsWith(s, suffix) ==
    /\ Len(s) >= Len(suffix)
    /\ SubSeq(s, Len(s) - Len(suffix) + 1, Len(s)) = suffix

\* os.path.splitext(name)[0]: the name up to its last dot (a leading dot is
\* no extension), the whole name when it has none
SplitExtRoot(name) ==
    IF \A i \in 2..Len(name) : name[i] # "."
    THEN name
    ELSE SubSeq(name, 1,
                (CHOOSE i \in 2..Len(name) :
                    name[i] = "." /\ \A j \in (i + 1)..Len(name) : name[j] # ".") - 1)

\* output_filename = input_name + str(index).zfill(padding) + ".obj"
OutputFilename(input_name, idx, pad) ==
    input_name \o ZFill(StrOfNat(idx), pad) \o ObjSuffix

\* the main loop takes the next file of input_dir: a file that is no .obj is
\* skipped; for an .obj, seperate_obj imports it and calls polySeparate, whose
\* result lists the separated pieces and, last, the polySeparate node
SepPick ==
    /\ spc = "walk"
    /\ \E file \in sepIn :
        /\ sepIn' = sepIn \ {file}
        /\ IF EndsWith(file, ObjSuffix)
           THEN LET src == CHOOSE x \in sepSource : x.file = file
                IN  /\ sepFile' = file
                    /\ results' = src.pieces + 1
                    /\ index' = 0
                    /\ spc' = "export"
           ELSE UNCHANGED <<sepFile, results, index, spc>>
    /\ UNCHANGED <<outDir, exported, sepSource>>

\* one iteration of `for index in range(len(results) - 1)`: piece `index` is
\* selected and exported (force=True overwrites a file of the same name)
SepExport ==
    /\ spc = "export"
    /\ index < results - 1
    /\ LET input_name == SplitExtRoot(sepFile)
           output_filename == OutputFilename(input_name, index, padding)
           src == CHOOSE x \in sepSource : x.file = sepFile
       IN  /\ outDir' = outDir \cup {output_filename}
           /\ exported' = exported \cup
                  {[input |-> sepFile, frame |-> src.frame,
                    index |-> index, name |-> output_filename]}
    /\ index' = index + 1
    /\ UNCHANGED <<sepIn, sepFile, results, sepSource, spc>>

\* the range is exhausted: seperate_obj returns to the main loop
SepReturn ==
    /\ spc = "export"
    /\ index >= results - 1
    /\ spc' = "walk"
    /\ UNCHANGED <<sepIn, sepFile, results, index, outDir, exported, sepSource>>

\* os.walk is exhausted: the script ends
SepFinish ==
    /\ spc = "walk"
    /\ sepIn = {}
    /\ spc' = "done"
    /\ UNCHANGED <<sepIn, sepFile, results, index, outDir, exported, sepSource>>

SepIdle ==
    /\ sepIn = {}
    /\ sepFile = << >>
    /\ results = 0
    /\ index = 0
    /\ outDir = {}
    /\ exported = {}
    /\ sepSource = {}
    /\ spc = "idle"

(* Input directories of the separation stage: <prefix><frame>.obj files, each
   a mesh of at least two connected pieces (polySeparate refuses a mesh of
   one piece), and possibly a file that is no .obj *)

SepPrefixes == { << >>, << "c" >> }
SepFrames == {0, 12}
SepFrameWidths == {4}
OtherFile == << "n", ".", "t", "x", "t" >>

SepInit ==
    /\ \E prefix \in SepPrefixes, fw \in SepFrameWidths,
          F \in SUBSET SepFrames, other \in SUBSET {OtherFile} :
        /\ F # {}
        /\ \E pieces \in [F -> 2..MaxPieces] :
            sepSource = { [file |-> ConventionName(prefix, fw, 0, f, FALSE, 0),
                           frame |-> f, pieces |-> pieces[f]] : f \in F }
        /\ sepIn = {x.file : x \in sepSource} \cup other
    /\ sepFile = << >>
    /\ results = 0
    /\ index = 0
    /\ outDir = {}
    /\ exported = {}
    /\ spc = "walk"

\* the next stage reads the directory the separation wrote
SepHandOver ==
    /\ spc = "done"
    /\ mpc = "idle"
    /\ MetaBegin(outDir)
    /\ UNCHANGED entries

----------------------------------------------------------------------------
(* mesh_processing/save_obj_sequence.save_objs *)

\* the name save_per_frame is bound nowhere (the function is used as its
\* docstring shows, from a caller that defines no such global)
NoGlobal == -1

\* output options of the script
digits == 4
output_prefix == << "b", "o", "d", "y" >>

\* longest frame range of a call, in frames after start_frame
MaxSpan == 4
\* largest value of save_pre_frame and of the global save_per_frame
MaxPerFrame == 2

\* filename = output_prefix + str(index).zfill(digits) + ".obj"
SaveFilename(prefix, idx, width) == prefix \o ZFill(StrOfNat(idx), width) \o ObjSuffix

\* frame + i / save_pre_frame, as the fraction <<numerator, denominator>>
SaveTime(frame, i, per) == << frame * per + i, per >>

\* `for frame in range(start_frame, end_frame + 1)` takes its next value and
\* evaluates range(save_per_frame) for the inner loop: the name is looked up
\* among the globals (the parameter is called save_pre_frame)
SaveNextFrame ==
    /\ sopc = "frame"
    /\ IF so_frame > so_end_frame
       THEN sopc' = "done" /\ UNCHANGED so_i
       ELSE IF save_per_frame = NoGlobal
       THEN sopc' = "raised" /\ UNCHANGED so_i
       ELSE sopc' = "inner" /\ so_i' = 0
    /\ UNCHANGED <<so_start_frame, so_end_frame, save_pre_frame, save_per_frame,
                   so_frame, so_index, saved>>

\* one iteration of `for i in range(save_per_frame)`: the timeline is set and
\* the scene exported under the running index (a division by zero raises)
SaveExport ==
    /\ sopc = "inner"
    /\ so_i < save_per_frame
    /\ IF save_pre_frame = 0
       THEN sopc' = "raised" /\ UNCHANGED <<so_i, so_index, saved>>
       ELSE /\ saved' = saved \cup
                  {[filename |-> SaveFilename(output_prefix, so_index, digits),
                    time |-> SaveTime(so_frame, so_i, save_pre_frame)]}
            /\ so_index' = so_index + 1
            /\ so_i' = so_i + 1
            /\ sopc' = "inner"
    /\ UNCHANGED <<so_start_frame, so_end_frame, save_pre_frame, save_per_frame, so_frame>>

\* the inner range is exhausted
SaveInnerEnd ==
    /\ sopc = "inner"
    /\ so_i >= save_per_frame
    /\ so_frame' = so_frame + 1
    /\ sopc' = "frame"
    /\ UNCHANGED <<so_start_frame, so_end_frame, save_pre_frame, save_per_frame,
                   so_i, so_index, saved>>

SaveIdle ==
    /\ so_start_frame = 0
    /\ so_end_frame = 0
    /\ save_pre_frame = 0
    /\ save_per_frame = NoGlobal
    /\ so_frame = 0
    /\ so_i = 0
    /\ so_index = 0
    /\ saved = {}
    /\ sopc = "idle"

\* a call save_objs(output_dir, "body", 4, start, end, per, compress); the
\* script's own call passes its global save_per_frame as save_pre_frame
SaveInit ==
    /\ so_start_frame \in 0..1
    /\ so_end_frame \in (so_start_frame - 1)..(so_start_frame + MaxSpan)
    /\ save_pre_frame \in 0..MaxPerFrame
    /\ save_per_frame \in {NoGlobal} \cup (1..MaxPerFrame)
    /\ so_frame = so_start_frame
    /\ so_i = 0
    /\ so_index = 0
    /\ saved = {}
    /\ sopc = "frame"

----------------------------------------------------------------------------
(* mesh_processing/simplify_obj_sequence.process_obj and resume_obj.process_obj

   A line of an OBJ file is its keyword (the text before the first blank) and
   its blank-separated tokens; a token is the tuple of its "/"-separated
   fields.  A coordinate is a one-field token holding the number in units of
   1e-7; an index field holds the index, 0 for an empty field. *)

\* most lines of an input file
MaxLines == 3

\* the nearest integer to a / b for b > 0 (the inputs of the model meet no tie)
RoundDiv(a, b) ==
    IF a >= 0 THEN (2 * a + b) \div (2 * b) ELSE -(((-2) * a + b) \div (2 * b))

\* "%f" % (value * scale): six decimals, so the nearest multiple of 1e-6
FormatF(value, scale) == 10 * RoundDiv(value * scale[1], scale[2] * 10)

\* x, y, z = -x, z, y
ChangeUpDirection(xyz) == << -xyz[1], xyz[3], xyz[2] >>

\* y and z exchanged, x kept
ChangeYZKeepingX(xyz) == << xyz[1], xyz[3], xyz[2] >>

\* x, y, z = -x, z, y
ChangeYZ(xyz) == << -xyz[1], xyz[3], xyz[2] >>

\* line.startswith("v ")
StartsWithV(line) == line.kw = "v"

\* line.startswith("f ")
StartsWithF(line) == line.kw = "f"

\* float(results[0]), float(results[1]), float(results[2])
Floats(line) == << line.args[1][1], line.args[2][1], line.args[3][1] >>

\* "v %f %f %f\n" % (x, y, z), after the scaling when scale != 1.0
VertexLine(xyz, scale) ==
    [kw |-> "v",
     args |-> << << FormatF(xyz[1], scale) >>,
                 << FormatF(xyz[2], scale) >>,
                 << FormatF(xyz[3], scale) >> >>]

\* "f" and, for each token, " " + result.split("/")[0]
CompressedFace(line) ==
    [kw |-> "f", args |-> [k \in 1..Len(line.args) |-> << line.args[k][1] >>]]

\* simplify's loop body with startswith("v") for startswith("v "): a normal
\* or a texture coordinate is taken for a vertex
SimplifyLineLooseV(line, opt) ==
    (IF line.kw \in {"v", "vn", "vt"}
     THEN LET xyz == Floats(line)
              turned == IF opt.change THEN ChangeUpDirection(xyz) ELSE xyz
          IN  << VertexLine(turned, opt.scale) >>
     ELSE << >>)
    \o
    (IF StartsWithF(line)
     THEN IF opt.compress THEN << CompressedFace(line) >> ELSE << line >>
     ELSE << >>)

\* what one iteration of simplify's process_obj appends to new_lines
SimplifyLine(line, opt) ==
    (IF StartsWithV(line)
     THEN LET xyz == Floats(line)
              turned == IF opt.change THEN ChangeUpDirection(xyz) ELSE xyz
          IN  << VertexLine(turned, opt.scale) >>
     ELSE << >>)
    \o
    (IF StartsWithF(line)
     THEN IF opt.compress THEN << CompressedFace(line) >> ELSE << line >>
     ELSE << >>)

\* resume's loop body without its else branch
ResumeLineNoElse(line, opt) ==
    IF StartsWithV(line)
    THEN LET xyz == Floats(line)
             turned == IF opt.change THEN ChangeYZ(xyz) ELSE xyz
         IN  << VertexLine(turned, opt.scale) >>
    ELSE << >>

\* what one iteration of resume's process_obj appends to new_lines
ResumeLine(line, opt) ==
    IF StartsWithV(line)
    THEN LET xyz == Floats(line)
             turned == IF opt.change THEN ChangeYZ(xyz) ELSE xyz
         IN  << VertexLine(turned, opt.scale) >>
    ELSE << line >>

\* simplify: fp.readline() returns a line and the loop body handles it
SimplifyRead ==
    /\ opc = "simplify"
    /\ read_pos < Len(input_file)
    /\ new_lines' = new_lines \o SimplifyLine(input_file[read_pos + 1], options)
    /\ read_pos' = read_pos + 1
    /\ UNCHANGED <<input_file, options, simplified_from, opc>>

\* simplify: fp.readline() returns "" at the end of the file: break, return
SimplifyReturn ==
    /\ opc = "simplify"
    /\ read_pos = Len(input_file)
    /\ opc' = "simplified"
    /\ UNCHANGED <<input_file, read_pos, new_lines, options, simplified_from>>

\* resume: fp.readline() returns a line and the loop body handles it
ResumeRead ==
    /\ opc = "resume"
    /\ read_pos < Len(input_file)
    /\ new_lines' = new_lines \o ResumeLine(input_file[read_pos + 1], options)
    /\ read_pos' = read_pos + 1
    /\ UNCHANGED <<input_file, options, simplified_from, opc>>

\* resume: fp.readline() returns "" at the end of the file: break, return
ResumeReturn ==
    /\ opc = "resume"
    /\ read_pos = Len(input_file)
    /\ opc' = "resumed"
    /\ UNCHANGED <<input_file, read_pos, new_lines, options, simplified_from>>

\* the scale factors the two scripts are run with, as fractions
SimplifyScales == { <<1, 1>>, <<1, 100>> }
ResumeScales == { <<1, 1>>, <<100, 1>> }

\* save_obj writes the simplified lines, and resume's process_obj is called
\* on the file written
ResumeSimplified ==
    /\ opc = "simplified"
    /\ simplified_from' = << [lines |-> input_file, options |-> options] >>
    /\ input_file' = new_lines
    /\ read_pos' = 0
    /\ new_lines' = << >>
    /\ \E change_yz \in BOOLEAN, scale \in ResumeScales :
           options' = [compress |-> FALSE, change |-> change_yz, scale |-> scale]
    /\ opc' = "resume"

NoOptions == [compress |-> FALSE, change |-> FALSE, scale |-> <<1, 1>>]

ObjIdle ==
    /\ input_file = << >>
    /\ read_pos = 0
    /\ new_lines = << >>
    /\ options = NoOptions
    /\ simplified_from = << >>
    /\ opc = "idle"

(* Input files: vertices (one with a seventh decimal), a normal, a face with
   texture and normal indices, a comment *)

SampleLines ==
    { [kw |-> "v",  args |-> << <<1234567>>, <<5000000>>, <<-2500000>> >>],
      [kw |-> "v",  args |-> << <<0>>, <<500000>>, <<2000000>> >>],
      [kw |-> "vn", args |-> << <<0>>, <<10000000>>, <<0>> >>],
      [kw |-> "f",  args |-> << <<1, 1, 1>>, <<2, 2, 1>>, <<3, 0, 1>> >>],
      [kw |-> "#",  args |-> << >>] }

InputFiles == UNION { [1..n -> SampleLines] : n \in 0..MaxLines }

ObjInit ==
    /\ input_file \in InputFiles
    /\ read_pos = 0
    /\ new_lines = << >>
    /\ simplified_from = << >>
    /\ \/ /\ opc = "simplify"
          /\ \E compress \in BOOLEAN, change \in BOOLEAN, scale \in SimplifyScales :
                 options = [compress |-> compress, change |-> change, scale |-> scale]
       \/ /\ opc = "resume"
          /\ \E change \in BOOLEAN, scale \in ResumeScales :
                 options = [compress |-> FALSE, change |-> change, scale |-> scale]

----------------------------------------------------------------------------
(* rendering/background_render: the main thread and its render threads.
   The scene files lie in base itself (a scene's path is joined to base), so
   os.walk yields one directory. *)

\* largest value parallelThreadNum is set to (the script's comment has the
\* user set it by the memory of the machine; the script as written has 8)
MaxParallel == 3

\* most scene files in base
MaxScenes == 7

\* min(a, b)
Smaller(a, b) == IF a < b THEN a ELSE b

\* a batch that begins one task early, with the last task of the batch before
SubarrayFromPrevious(i, n, size) ==
    LET from == IF i > 0 THEN i - 1 ELSE i
    IN  [k \in 1..(Smaller(i + size, n) - from) |-> from + k - 1]

\* list(range(i, min(i + parallelThreadNum, len(fs))))
Subarray(i, n, size) == [k \in 1..(Smaller(i + size, n) - i) |-> i + k - 1]

\* all tasks in one batch, whatever the size
SubarraysUnsplit(n, size) ==
    IF n = 0 THEN << >> ELSE << [k \in 1..n |-> k - 1] >>

\* for i in range(0, len(fs), parallelThreadNum): subarrays.append(subarray)
Subarrays(n, size) ==
    [b \in 1..((n + size - 1) \div size) |-> Subarray((b - 1) * size, n, size)]

\* the tasks whose thread has been started and has not finished
Alive == {t \in 0..(fsLen - 1) : tpc[t] \in {"system", "load", "store"}}

\* the tasks whose thread has been started
Started == {t \in 0..(fsLen - 1) : tpc[t] # "none"}

\* the tasks of the batches before batch b of subarrays
EarlierTasks(b) ==
    UNION { {subarrays[a][k] : k \in 1..Len(subarrays[a])} : a \in 1..(b - 1) }

\* `for arr in subarrays` takes its next batch, or ends and the script with it
NextBatch(b) ==
    IF b > Len(subarrays) THEN rpc' = "done" /\ arr_idx' = b /\ arr_pos' = 1
    ELSE IF Len(subarrays[b]) = 0 THEN rpc' = "join" /\ arr_idx' = b /\ arr_pos' = 1
    ELSE rpc' = "start" /\ arr_idx' = b /\ arr_pos' = 1

\* thread = threading.Thread(target=renderingOne, args=(cmds[i],)); thread.start()
RenderStart ==
    /\ rpc = "start"
    /\ LET i == subarrays[arr_idx][arr_pos]
       IN  tpc' = [tpc EXCEPT ![i] = "system"]
    /\ rpc' = "sleep"
    /\ UNCHANGED <<parallelThreadNum, fsLen, subarrays, arr_idx, arr_pos, threads, join_pos, loaded,
                   pbar_n, sleeps, executed>>

\* time.sleep(1)
RenderSleep ==
    /\ rpc = "sleep"
    /\ sleeps' = sleeps + 1
    /\ rpc' = "append"
    /\ UNCHANGED <<parallelThreadNum, fsLen, subarrays, arr_idx, arr_pos, threads, join_pos, tpc,
                   loaded, pbar_n, executed>>

\* threads.append(thread); then the next i of arr, or the joins
RenderAppend ==
    /\ rpc = "append"
    /\ threads' = Append(threads, subarrays[arr_idx][arr_pos])
    /\ IF arr_pos < Len(subarrays[arr_idx])
       THEN arr_pos' = arr_pos + 1 /\ rpc' = "start" /\ UNCHANGED join_pos
       ELSE arr_pos' = arr_pos /\ rpc' = "join" /\ join_pos' = 1
    /\ UNCHANGED <<parallelThreadNum, fsLen, subarrays, arr_idx, tpc, loaded, pbar_n, sleeps, executed>>

\* thread.join() returning whether or not the thread has finished
RenderJoinNoWait ==
    /\ rpc = "join"
    /\ IF join_pos <= Len(threads)
       THEN /\ join_pos' = join_pos + 1
            /\ UNCHANGED <<arr_idx, arr_pos, rpc>>
       ELSE /\ NextBatch(arr_idx + 1)
            /\ UNCHANGED join_pos
    /\ UNCHANGED <<parallelThreadNum, fsLen, subarrays, threads, tpc, loaded, pbar_n, sleeps, executed>>

\* thread.join() returns for the next thread of the list threads, which has
\* finished; after the last one the next batch begins
RenderJoin ==
    /\ rpc = "join"
    /\ IF join_pos <= Len(threads)
       THEN /\ tpc[threads[join_pos]] = "done"
            /\ join_pos' = join_pos + 1
            /\ UNCHANGED <<arr_idx, arr_pos, rpc>>
       ELSE /\ NextBatch(arr_idx + 1)
            /\ UNCHANGED join_pos
    /\ UNCHANGED <<parallelThreadNum, fsLen, subarrays, threads, tpc, loaded, pbar_n, sleeps, executed>>

\* renderingOne: os.system(cmd) returns
RenderSystem(t) ==
    /\ tpc[t] = "system"
    /\ tpc' = [tpc EXCEPT ![t] = "load"]
    /\ executed' = [executed EXCEPT ![t] = @ + 1]
    /\ UNCHANGED <<parallelThreadNum, fsLen, subarrays, arr_idx, arr_pos, threads, join_pos, loaded,
                   pbar_n, sleeps, rpc>>

\* renderingOne: pbar.update(1) reads pbar.n (tqdm takes no lock for self.n += n)
RenderLoad(t) ==
    /\ tpc[t] = "load"
    /\ loaded' = [loaded EXCEPT ![t] = pbar_n]
    /\ tpc' = [tpc EXCEPT ![t] = "store"]
    /\ UNCHANGED <<parallelThreadNum, fsLen, subarrays, arr_idx, arr_pos, threads, join_pos, pbar_n,
                   sleeps, executed, rpc>>

\* renderingOne: pbar.update(1) stores the sum, and the thread ends
RenderStore(t) ==
    /\ tpc[t] = "store"
    /\ pbar_n' = loaded[t] + 1
    /\ loaded' = [loaded EXCEPT ![t] = 0]
    /\ tpc' = [tpc EXCEPT ![t] = "done"]
    /\ UNCHANGED <<parallelThreadNum, fsLen, subarrays, arr_idx, arr_pos, threads, join_pos,
                   sleeps, executed, rpc>>

RenderThread == \E t \in 0..(fsLen - 1) : RenderSystem(t) \/ RenderLoad(t) \/ RenderStore(t)

RenderIdle ==
    /\ parallelThreadNum = 1
    /\ fsLen = 0
    /\ subarrays = << >>
    /\ arr_idx = 1
    /\ arr_pos = 1
    /\ threads = << >>
    /\ join_pos = 1
    /\ tpc = << >>
    /\ loaded = << >>
    /\ pbar_n = 0
    /\ sleeps = 0
    /\ executed = << >>
    /\ rpc = "idle"

\* the state on entering `for arr in subarrays`, for a base of any number of scenes
RenderInit ==
    /\ parallelThreadNum \in 1..MaxParallel
    /\ fsLen \in 0..MaxScenes
    /\ subarrays = Subarrays(fsLen, parallelThreadNum)
    /\ arr_idx = 1
    /\ arr_pos = 1
    /\ threads = << >>
    /\ join_pos = 1
    /\ tpc = [t \in 0..(fsLen - 1) |-> "none"]
    /\ loaded = [t \in 0..(fsLen - 1) |-> 0]
    /\ pbar_n = 0
    /\ sleeps = 0
    /\ executed = [t \in 0..(fsLen - 1) |-> 0]
    /\ rpc = IF fsLen = 0 THEN "done" ELSE "start"

----------------------------------------------------------------------------
(* scene_assembly/background/assemble_scenes.py: the prefix and the suffix
   the names of a cloth or obstacle directory have in common.  The loop over
   the obstacles and the loop over the clothes are the same statements on
   obstaclePrefix/obstacleSuffix and clothPrefix/clothSuffix. *)

\* most names os.listdir returns
MaxNames == 3

\* for j in range(min(len(prefix), len(name))): common += prefix[j], until
\* the first j with prefix[j] != name[j]; j counts from 0
RECURSIVE CommonPrefixFrom(_, _, _, _)
CommonPrefixFrom(prefix, name, j, common) ==
    IF j >= Smaller(Len(prefix), Len(name)) THEN common
    ELSE IF prefix[j + 1] = name[j + 1]
         THEN CommonPrefixFrom(prefix, name, j + 1, Append(common, prefix[j + 1]))
         ELSE common

CommonPrefix(prefix, name) == CommonPrefixFrom(prefix, name, 0, << >>)

\* for j in range(-1, -min(len(suffix), len(name)) - 1, -1):
\* common = suffix[j] + common, until the first j with suffix[j] != name[j];
\* j is Python's negative index, s[j] the character Len(s) + j + 1
RECURSIVE CommonSuffixFrom(_, _, _, _, _)
CommonSuffixFrom(suffix, name, j, stop, common) ==
    IF j <= stop THEN common
    ELSE IF suffix[Len(suffix) + j + 1] = name[Len(name) + j + 1]
         THEN CommonSuffixFrom(suffix, name, j - 1, stop,
                               <<suffix[Len(suffix) + j + 1]>> \o common)
         ELSE common

\* the loop with range(-1, -min(len(suffix), len(name)), -1)
CommonSuffixShortRange(suffix, name) ==
    CommonSuffixFrom(suffix, name, -1, -Smaller(Len(suffix), Len(name)), << >>)

CommonSuffix(suffix, name) ==
    CommonSuffixFrom(suffix, name, -1, -Smaller(Len(suffix), Len(name)) - 1, << >>)

\* one pass of `for name in filenames`
InferStep ==
    /\ ipc = "loop"
    /\ name_idx <= Len(filenames)
    /\ clothPrefix' = CommonPrefix(clothPrefix, filenames[name_idx])
    /\ clothSuffix' = CommonSuffix(clothSuffix, filenames[name_idx])
    /\ name_idx' = name_idx + 1
    /\ UNCHANGED <<filenames, ipc>>

\* the loop ends: clothPrefixes.append(clothPrefix); clothSuffixes.append(clothSuffix)
InferEnd ==
    /\ ipc = "loop"
    /\ name_idx > Len(filenames)
    /\ ipc' = "inferred"
    /\ UNCHANGED <<filenames, name_idx, clothPrefix, clothSuffix>>

InferIdle ==
    /\ filenames = << >>
    /\ name_idx = 1
    /\ clothPrefix = << >>
    /\ clothSuffix = << >>
    /\ ipc = "idle"

\* names a directory of a sequence can hold: same prefix and suffix around
\* frame numbers of the same and of different widths, a name with another
\* first character, one with another extension, one without extension, and
\* one that is the tail of another
ListedNames ==
    { <<"c", "0", "1", ".", "o">>,
      <<"c", "0", "2", ".", "o">>,
      <<"c", "1", "2", ".", "o">>,
      <<"c", "1", ".", "o">>,
      <<"d", "0", "1", ".", "o">>,
      <<"c", "0", "1", ".", "x">>,
      <<"c", "0", "1">>,
      <<"1", ".", "o">> }

\* the lists of up to n different names, in every order
RECURSIVE Listings(_)
Listings(n) ==
    IF n = 0 THEN { << >> }
    ELSE LET shorter == Listings(n - 1)
         IN  shorter \cup
             { Append(l, f) : l \in {x \in shorter : Len(x) = n - 1}, f \in ListedNames }

\* filenames = os.listdir(path) of a directory that is not empty;
\* clothPrefix = filenames[0]; clothSuffix = filenames[0]
InferInit ==
    /\ filenames \in { l \in Listings(MaxNames) :
                         /\ Len(l) >= 1
                         /\ \A a, b \in 1..Len(l) : a # b => l[a] # l[b] }
    /\ name_idx = 1
    /\ clothPrefix = filenames[1]
    /\ clothSuffix = filenames[1]
    /\ ipc = "loop"

----------------------------------------------------------------------------
(* assemble_clothes.py, the script: materials, get_meta_info(input_dir), and
   per frame the deletion of the meshes, the import of the parts and the save *)

\* most files in input_dir
MaxClothFiles == 4

\* cloth_materials: the materials the script creates, by their mtl_configs key
cloth_materials == << "texture" >>

\* padding_digits = max(4, len(str(end_frame - start_frame + 1)));
\* output_format = "cloth%0" + str(padding_digits) + "d.mb"
OutputFormat ==
    LET span == StrOfNat(end_frame - start_frame + 1)
        padding_digits == IF Len(span) > 4 THEN Len(span) ELSE 4
    IN  << "c", "l", "o", "t", "h", "%", "0" >> \o StrOfNat(padding_digits) \o << "d", ".", "m", "b" >>

\* get_meta_info has returned or raised; range(start_frame, end_frame + 1) begins
AsmBegin ==
    /\ apc = "meta"
    /\ mpc \in {"returned", "raised"}
    /\ IF mpc = "raised"
       THEN apc' = "raised" /\ asm_error' = "get_meta_info" /\ UNCHANGED asm_frame
       ELSE apc' = "delete" /\ asm_frame' = start_frame /\ UNCHANGED asm_error
    /\ UNCHANGED <<scene, asm_part, saved_scenes>>

\* the transforms stay in the scene
AsmNoDelete ==
    /\ apc = "delete"
    /\ asm_frame <= end_frame
    /\ asm_part' = 0
    /\ apc' = "import"
    /\ UNCHANGED <<scene, asm_frame, saved_scenes, asm_error>>

\* the next frame of the range: every transform with a mesh child is deleted
AsmDelete ==
    /\ apc = "delete"
    /\ asm_frame <= end_frame
    /\ scene' = << >>
    /\ asm_part' = 0
    /\ apc' = "import"
    /\ UNCHANGED <<asm_frame, saved_scenes, asm_error>>

\* the range is exhausted
AsmEnd ==
    /\ apc = "delete"
    /\ asm_frame > end_frame
    /\ apc' = "done"
    /\ UNCHANGED <<scene, asm_frame, asm_part, saved_scenes, asm_error>>

\* filename = format % (frame) or format % (frame, part);
\* process_cloth(input_dir, filename, cloth_materials[...]): the import of a
\* file that is not in input_dir raises
AsmImport ==
    /\ apc = "import"
    /\ parts = 0 \/ asm_part < parts
    /\ LET r == IF parts = 0 THEN PercentFormat(format, << asm_frame >>)
                ELSE PercentFormat(format, << asm_frame, asm_part >>)
           m == IF parts = 0 THEN 1 ELSE asm_part + 1
       IN  IF ~r.ok
           THEN apc' = "raised" /\ asm_error' = "TypeError" /\ UNCHANGED <<scene, asm_part>>
           ELSE IF m > Len(cloth_materials)
           THEN apc' = "raised" /\ asm_error' = "IndexError" /\ UNCHANGED <<scene, asm_part>>
           ELSE IF r.out \notin dir
           THEN apc' = "raised" /\ asm_error' = "RuntimeError" /\ UNCHANGED <<scene, asm_part>>
           ELSE /\ scene' = Append(scene, [file |-> r.out, material |-> cloth_materials[m]])
                /\ asm_part' = asm_part + 1
                /\ apc' = IF parts = 0 THEN "save" ELSE "import"
                /\ UNCHANGED asm_error
    /\ UNCHANGED <<asm_frame, saved_scenes>>

\* range(parts) is exhausted
AsmImported ==
    /\ apc = "import"
    /\ parts # 0 /\ asm_part >= parts
    /\ apc' = "save"
    /\ UNCHANGED <<scene, asm_frame, asm_part, saved_scenes, asm_error>>

\* cmds.file(rename=output_format % (frame - start_frame)); cmds.file(save=True)
AsmSave ==
    /\ apc = "save"
    /\ saved_scenes' = saved_scenes \cup
           { [name |-> PercentFormat(OutputFormat, << asm_frame - start_frame >>).out,
              frame |-> asm_frame,
              meshes |-> scene] }
    /\ asm_frame' = asm_frame + 1
    /\ apc' = "delete"
    /\ UNCHANGED <<scene, asm_part, asm_error>>

AsmIdle ==
    /\ scene = << >>
    /\ asm_frame = 0
    /\ asm_part = 0
    /\ saved_scenes = {}
    /\ asm_error = ""
    /\ apc = "idle"

\* frames of the cloth files of input_dir: consecutive ones and a gap
ClothFrames == {7, 8, 10}

\* the files input_dir may hold
ClothCandidates ==
    { [file |-> ConventionName(<< "c" >>, 3, 2, f, hp, p),
       frame |-> f, hasPart |-> hp, part |-> IF hp THEN p ELSE 0] :
        f \in ClothFrames, hp \in BOOLEAN, p \in 0..MaxPart }

\* a new scene, the materials created, get_meta_info(input_dir) entered
AsmInit ==
    /\ \E E \in SUBSET ClothCandidates :
        /\ Cardinality(E) <= MaxClothFiles
        /\ entries = E
        /\ dir = {e.file : e \in E}
    /\ visited = {}
    /\ start_frame = 9999999
    /\ end_frame = -9999999
    /\ parts = 0
    /\ format = Unbound
    /\ mpc = "walk"
    /\ scene = << >>
    /\ asm_frame = 0
    /\ asm_part = 0
    /\ saved_scenes = {}
    /\ asm_error = ""
    /\ apc = "meta"

----------------------------------------------------------------------------
(* mesh_processing/fbx_to_obj_sequence.py: ObjSequnceConvertor.run and the
   __convert it calls.  itertools.takewhile returns no list, so __convert
   always builds frames in the while loop of its except branch.  Frames are
   kept times objPerFrame, the step 1.0 / objPerFrame being one unit. *)

\* largest endFrame handed to run, and largest end of the animation
MaxEndFrame == 2

\* run's argument transitionFrames (30 when not given)
TransitionFrames == 2

\* self.skinedTransform
skinedTransform == << "m" >>

\* s.strip() of a name that has blanks at its ends only
RECURSIVE Strip(_)
Strip(s) ==
    IF s = << >> THEN s
    ELSE IF Head(s) = " " THEN Strip(Tail(s))
    ELSE IF s[Len(s)] = " " THEN Strip(SubSeq(s, 1, Len(s) - 1))
    ELSE s

\* len(str(maxFrame)): a float that is a whole number prints with ".0"
StrLen(n, isFloat) == Len(StrOfNat(n)) + (IF isFloat THEN 2 ELSE 0)

\* run up to the call of __convert, and __convert up to its while loop
CvRun ==
    /\ cvpc = "call"
    /\ IF startNumber < 0 \/ cv_digits <= 0
       THEN /\ cvpc' = "raised"
            /\ UNCHANGED <<animationRange, startFrame, endFrame, endIsFloat, renumberFrame,
                           exportBaseName, cv_frames, cv_frame>>
       ELSE LET range == IF startFromTpose
                         THEN [animationRange EXCEPT !.start = @ - TransitionFrames]
                         ELSE animationRange
                fromRange == startFrame > endFrame
                start == IF fromRange THEN range.start ELSE startFrame
                stripped == Strip(exportBaseName)
            IN  /\ animationRange' = range
                /\ startFrame' = start
                /\ endFrame' = IF fromRange THEN range.end ELSE endFrame
                /\ endIsFloat' = fromRange
                /\ renumberFrame' = (IF start < 0 \/ objPerFrame # 1 THEN TRUE ELSE renumberFrame)
                /\ exportBaseName' = IF stripped = << >> THEN Strip(skinedTransform) ELSE stripped
                /\ cv_frames' = << >>
                /\ cv_frame' = start * objPerFrame
                /\ cvpc' = "frames"
    /\ UNCHANGED <<startFromTpose, objPerFrame, startNumber, cv_digits, obj_files>>

\* while frame < endFrame: frames.append(frame); frame += 1.0 / objPerFrame
CvAppend ==
    /\ cvpc = "frames"
    /\ cv_frame < endFrame * objPerFrame
    /\ cv_frames' = Append(cv_frames, cv_frame)
    /\ cv_frame' = cv_frame + 1
    /\ UNCHANGED <<animationRange, startFromTpose, startFrame, endFrame, endIsFloat, objPerFrame,
                   renumberFrame, startNumber, cv_digits, exportBaseName, obj_files, cvpc>>

\* the loop ends; digits is raised to the digits of maxFrame; __convert and
\* run return
CvReturn ==
    /\ cvpc = "frames"
    /\ cv_frame >= endFrame * objPerFrame
    /\ LET minDigitsRequired == IF renumberFrame THEN StrLen(startNumber + Len(cv_frames), FALSE)
                                ELSE StrLen(endFrame, endIsFloat)
       IN  cv_digits' = IF minDigitsRequired > cv_digits THEN minDigitsRequired ELSE cv_digits
    /\ cvpc' = "returned"
    /\ UNCHANGED <<animationRange, startFromTpose, startFrame, endFrame, endIsFloat, objPerFrame,
                   renumberFrame, startNumber, exportBaseName, cv_frames, cv_frame, obj_files>>

CvIdle ==
    /\ animationRange = [start |-> 0, end |-> 0]
    /\ startFromTpose = FALSE
    /\ startFrame = 0
    /\ endFrame = 0
    /\ endIsFloat = FALSE
    /\ objPerFrame = 1
    /\ renumberFrame = FALSE
    /\ startNumber = 0
    /\ cv_digits = 1
    /\ exportBaseName = << >>
    /\ cv_frames = << >>
    /\ cv_frame = 0
    /\ obj_files = {}
    /\ cvpc = "idle"

\* a convertor of an animation keyed from frame 0 on, an empty exportDir, and
\* run called with whole-number arguments
CvInit ==
    /\ animationRange \in [start : {0}, end : 1..MaxEndFrame]
    /\ startFromTpose \in BOOLEAN
    /\ startFrame \in {0, 1}
    /\ endFrame \in (-1)..MaxEndFrame
    /\ endIsFloat = FALSE
    /\ objPerFrame \in {1, 2}
    /\ renumberFrame \in BOOLEAN
    /\ startNumber \in {-1, 0, 1}
    /\ cv_digits \in {0, 1, 4}
    /\ exportBaseName \in { << >>, << "b" >>, << " ", "b" >> }
    /\ cv_frames = << >>
    /\ cv_frame = 0
    /\ obj_files = {}
    /\ cvpc = "call"

----------------------------------------------------------------------------
(* assemble_clothes.createAiStandardSurfaceMaterial (the function of the same
   name in scene_assembly/background/assemble_scenes.py has the same
   statements).  A value is a double, a list of three doubles or a file path;
   doubles are kept in tenths and every value as a sequence of integers. *)

\* most fields present in a config
MaxFields == 1

\* The optional fields in the order the function handles them: the section
\* and field of the config, the shader attribute, the types the docstring
\* gives, and the statements that handle the field:
\*   "scalar": setAttr(attr, value)
\*   "color":  a tuple or list goes to setAttr(attr, *value, type="double3"),
\*             anything else to a texture file node connected by outColor
\*   "number": a float or int goes to setAttr(attr, value), anything else to
\*             a texture file node connected by outAlpha
\*   "unpack": setAttr(attr, *value, type="double3") whatever the value is
\*   "bump":   a texture file node connected through a bump2d node
Fields ==
    << [section |-> "base", field |-> "weight", attr |-> "base",
        doc |-> {"double"}, code |-> "scalar"],
       [section |-> "base", field |-> "color", attr |-> "baseColor",
        doc |-> {"double3", "filepath"}, code |-> "color"],
       [section |-> "base", field |-> "diffuseRoughness", attr |-> "diffuseRoughness",
        doc |-> {"double"}, code |-> "scalar"],
       [section |-> "base", field |-> "metalness", attr |-> "metalness",
        doc |-> {"double", "filepath"}, code |-> "number"],
       [section |-> "specular", field |-> "weight", attr |-> "specular",
        doc |-> {"double"}, code |-> "scalar"],
       [section |-> "specular", field |-> "color", attr |-> "specularColor",
        doc |-> {"double3", "filepath"}, code |-> "unpack"],
       [section |-> "specular", field |-> "roughness", attr |-> "specularRoughness",
        doc |-> {"double", "filepath"}, code |-> "number"],
       [section |-> "specular", field |-> "IOR", attr |-> "specularIOR",
        doc |-> {"double"}, code |-> "scalar"],
       [section |-> "specular", field |-> "anisotropy", attr |-> "specularAnisotropy",
        doc |-> {"double"}, code |-> "scalar"],
       [section |-> "specular", field |-> "rotation", attr |-> "specularRotation",
        doc |-> {"double"}, code |-> "scalar"],
       [section |-> "transmission", field |-> "weight", attr |-> "transmission",
        doc |-> {"double"}, code |-> "scalar"],
       [section |-> "transmission", field |-> "color", attr |-> "transmissionColor",
        doc |-> {"double3", "filepath"}, code |-> "color"],
       [section |-> "transmission", field |-> "depth", attr |-> "transmissionDepth",
        doc |-> {"double"}, code |-> "scalar"],
       [section |-> "transmission", field |-> "scatter", attr |-> "transmissionScatter",
        doc |-> {"double3", "filepath"}, code |-> "color"],
       [section |-> "transmission", field |-> "scatterAnisotropy", attr |-> "transmissionScatterAnisotropy",
        doc |-> {"double"}, code |-> "scalar"],
       [section |-> "transmission", field |-> "dispersionAbbe", attr |-> "transmissionDispersion",
        doc |-> {"double"}, code |-> "scalar"],
       [section |-> "transmission", field |-> "extraRoughness", attr |-> "transmissionExtraRoughness",
        doc |-> {"double"}, code |-> "scalar"],
       [section |-> "subsurface", field |-> "weight", attr |-> "subsurface",
        doc |-> {"double"}, code |-> "scalar"],
       [section |-> "subsurface", field |-> "color", attr |-> "subsurfaceColor",
        doc |-> {"double3", "filepath"}, code |-> "color"],
       [section |-> "subsurface", field |-> "radius", attr |-> "subsurfaceRadius",
        doc |-> {"double"}, code |-> "unpack"],
       [section |-> "subsurface", field |-> "scale", attr |-> "subsurfaceScale",
        doc |-> {"double"}, code |-> "scalar"],
       [section |-> "geometry", field |-> "thinWalled", attr |-> "thinWalled",
        doc |-> {"double"}, code |-> "scalar"],
       [section |-> "geometry", field |-> "opacity", attr |-> "opacity",
        doc |-> {"double"}, code |-> "unpack"],
       [section |-> "geometry", field |-> "bumpMapping", attr |-> "normalCamera",
        doc |-> {"filepath"}, code |-> "bump"],
       [section |-> "geometry", field |-> "anisotropyTangent", attr |-> "tangent",
        doc |-> {"double3"}, code |-> "unpack"] >>

Sections == << "base", "specular", "transmission", "subsurface", "geometry" >>

Attrs == {Fields[k].attr : k \in 1..Len(Fields)}

DoubleValue(x) == [kind |-> "double", v |-> << x >>]
Double3Value(x, y, z) == [kind |-> "double3", v |-> << x, y, z >>]
FilePathValue(id) == [kind |-> "filepath", v |-> << id >>]

\* values of each documented type: 0.0 and 0.5, black and grey, one image file
ValuesOf(kind) ==
    IF kind = "double" THEN {DoubleValue(0), DoubleValue(5)}
    ELSE IF kind = "double3" THEN {Double3Value(0, 0, 0), Double3Value(5, 5, 5)}
    ELSE {FilePathValue(1)}

\* bool(value): a number is true unless it is zero; lists of three and file
\* paths are not empty
Truthy(value) == ~(value.kind = "double" /\ value.v = << 0 >>)

Untouched == [kind |-> "default", v |-> << >>]
SetTo(value) == [kind |-> "value", v |-> value.v]
ConnectedTo(value) == [kind |-> "connected", v |-> value.v]

\* what the statements of a field do with a value that passed `if x.get(f)`:
\* the new state of the attribute, or the exception raised
HandleField(code, value) ==
    IF code = "scalar" THEN [ok |-> TRUE, attr |-> SetTo(value)]
    ELSE IF code = "color" THEN
        [ok |-> TRUE,
         attr |-> IF value.kind = "double3" THEN SetTo(value) ELSE ConnectedTo(value)]
    ELSE IF code = "number" THEN
        [ok |-> TRUE,
         attr |-> IF value.kind = "double" THEN SetTo(value) ELSE ConnectedTo(value)]
    ELSE IF code = "unpack" THEN
        IF value.kind = "double3" THEN [ok |-> TRUE, attr |-> SetTo(value)]
        ELSE [ok |-> FALSE, attr |-> Untouched]
    ELSE [ok |-> TRUE, attr |-> ConnectedTo(value)]

Present(cfg, k) ==
    \E o \in cfg : o.section = Fields[k].section /\ o.field = Fields[k].field

ValueIn(cfg, k) ==
    (CHOOSE o \in cfg : o.section = Fields[k].section /\ o.field = Fields[k].field).value

\* the fields of one section from the k-th of Fields on, in their order
RECURSIVE ApplySection(_, _, _, _)
ApplySection(cfg, name, k, sh) ==
    IF k > Len(Fields) THEN [ok |-> TRUE, shader |-> sh]
    ELSE IF Fields[k].section # name \/ ~Present(cfg, k) \/ ~Truthy(ValueIn(cfg, k))
    THEN ApplySection(cfg, name, k + 1, sh)
    ELSE LET h == HandleField(Fields[k].code, ValueIn(cfg, k))
         IN  IF h.ok
             THEN ApplySection(cfg, name, k + 1, [sh EXCEPT ![Fields[k].attr] = h.attr])
             ELSE [ok |-> FALSE, shader |-> sh]

\* where the function goes on after the section at position i of Sections
AfterSection(i) == IF i < Len(Sections) THEN Sections[i + 1] ELSE "return"

\* if config.get(name): ... for the section at position i of Sections
MtlSection(i) ==
    /\ mtlpc = Sections[i]
    /\ LET r == ApplySection(config, Sections[i], 1, shader)
       IN  /\ shader' = r.shader
           /\ mtlpc' = IF r.ok THEN AfterSection(i) ELSE "raised"
    /\ UNCHANGED config

MtlBase == MtlSection(1)
MtlSpecular == MtlSection(2)
MtlTransmission == MtlSection(3)
MtlSubsurface == MtlSection(4)
MtlGeometry == MtlSection(5)

\* return shader
MtlReturn ==
    /\ mtlpc = "return"
    /\ mtlpc' = "returned"
    /\ UNCHANGED <<config, shader>>

MtlIdle ==
    /\ config = {}
    /\ shader = << >>
    /\ mtlpc = "idle"

\* a field of the config with a value of one of its documented types
Options ==
    UNION { { [section |-> Fields[k].section, field |-> Fields[k].field, value |-> v] :
                v \in UNION {ValuesOf(kind) : kind \in Fields[k].doc} } :
            k \in 1..Len(Fields) }

\* the configs with up to n fields
RECURSIVE Configs(_)
Configs(n) ==
    IF n = 0 THEN { {} }
    ELSE LET fewer == Configs(n - 1)
         IN  fewer \cup
             UNION { { c \cup {o} :
                         o \in {x \in Options :
                                  \A y \in c : y.section # x.section \/ y.field # x.field} } :
                     c \in fewer }

\* the call has created the shader node: every attribute has Maya's default
MtlInit ==
    /\ config \in Configs(MaxFields)
    /\ shader = [a \in Attrs |-> Untouched]
    /\ mtlpc = "base"

----------------------------------------------------------------------------
(* get_meta_info on a directory that follows the convention *)

InitMeta == MetaInit /\ SepIdle /\ SaveIdle /\ ObjIdle /\ RenderIdle /\ InferIdle /\ AsmIdle /\ CvIdle /\ MtlIdle

NextMeta ==
    \/ MetaVisit /\ UNCHANGED <<sepVars, saveVars, objVars, renderVars, inferVars, asmVars, cvVars, mtlVars>>
    \/ MetaReturn /\ UNCHANGED <<sepVars, saveVars, objVars, renderVars, inferVars, asmVars, cvVars, mtlVars>>

SpecMeta == InitMeta /\ [][NextMeta]_vars

\* the arguments the assembling loop applies the format to for one file
FormatArgs(e) == IF parts = 0 THEN << e.frame >> ELSE << e.frame, e.part >>

\* all files carry a part suffix, or none does
UniformParts == \/ \A e \in entries : e.hasPart
                \/ \A e \in entries : ~e.hasPart

\* C1: when get_meta_info returns for a directory that follows the convention,
\* start_frame is the smallest and end_frame the largest frame number of a
\* file name of the directory.
C1_FrameRange ==
    mpc = "returned" =>
        /\ start_frame = Min({e.frame : e \in entries})
        /\ end_frame = Max({e.frame : e \in entries})

\* C2: the returned parts is 0 when no file carries a part suffix, and one
\* more than the largest part number of a file name otherwise.
C2_Parts ==
    mpc = "returned" =>
        parts = IF \A e \in entries : ~e.hasPart THEN 0
                ELSE 1 + Max({e.part : e \in {x \in entries : x.hasPart}})

C2_Witness ==
    /\ mpc = "returned"
    /\ \E e \in entries : e.hasPart /\ e.part = 1
    /\ \E e \in entries : ~e.hasPart
    /\ parts = 2

\* C3: for a directory of one prefix and one pair of digit widths whose files
\* all carry a part suffix or all carry none, the returned format applied to
\* the frame (and part) of any file gives back that file's name.
C3_FormatRoundTrip ==
    (mpc = "returned" /\ UniformParts) =>
        \A e \in entries :
            LET r == PercentFormat(format, FormatArgs(e))
            IN  r.ok /\ r.out = e.file


----------------------------------------------------------------------------
(* The separation stage followed by get_meta_info on its output directory *)

InitSeparate == SepInit /\ MetaIdle /\ SaveIdle /\ ObjIdle /\ RenderIdle /\ InferIdle /\ AsmIdle /\ CvIdle /\ MtlIdle

NextSeparate ==
    \/ SepPick /\ UNCHANGED <<metaVars, saveVars, objVars, renderVars, inferVars, asmVars, cvVars, mtlVars>>
    \/ SepExport /\ UNCHANGED <<metaVars, saveVars, objVars, renderVars, inferVars, asmVars, cvVars, mtlVars>>
    \/ SepReturn /\ UNCHANGED <<metaVars, saveVars, objVars, renderVars, inferVars, asmVars, cvVars, mtlVars>>
    \/ SepFinish /\ UNCHANGED <<metaVars, saveVars, objVars, renderVars, inferVars, asmVars, cvVars, mtlVars>>
    \/ SepHandOver /\ UNCHANGED <<sepVars, saveVars, objVars, renderVars, inferVars, asmVars, cvVars, mtlVars>>
    \/ MetaVisit /\ UNCHANGED <<sepVars, saveVars, objVars, renderVars, inferVars, asmVars, cvVars, mtlVars>>
    \/ MetaReturn /\ UNCHANGED <<sepVars, saveVars, objVars, renderVars, inferVars, asmVars, cvVars, mtlVars>>

SpecSeparate == InitSeparate /\ [][NextSeparate]_vars

\* the input files whose seperate_obj call has returned
Separated ==
    {x \in sepSource : x.file \notin sepIn /\ ~(spc = "export" /\ sepFile = x.file)}

\* C4: every file name seperate_obj writes is parsed by get_meta_info as the
\* frame of its input file and the part of its index, and the directory
\* written gives the frame range of the input and the number of pieces as parts.
C4_CrossStageNaming ==
    /\ \A x \in exported :
        LET p == ParseFile(x.name)
        IN  p.ok /\ p.frame = x.frame /\ p.part = x.index + 1
    /\ mpc = "returned" =>
        /\ start_frame = Min({x.frame : x \in sepSource})
        /\ end_frame = Max({x.frame : x \in sepSource})
        /\ parts = Max({x.pieces : x \in sepSource})

\* C5: once seperate_obj has returned for <name>.obj of n pieces, the files it
\* exported are exactly <name>_<k zero-padded to padding digits>.obj, k = 0..n-1.
C5_SeparatedNames ==
    \A s \in Separated :
        {x.name : x \in {y \in exported : y.input = s.file}} =
            { SplitExtRoot(s.file) \o << "_" >> \o ZFill(StrOfNat(k), padding) \o ObjSuffix :
                k \in 0..(s.pieces - 1) }


----------------------------------------------------------------------------
(* save_objs on its own *)

InitSave == SaveInit /\ MetaIdle /\ SepIdle /\ ObjIdle /\ RenderIdle /\ InferIdle /\ AsmIdle /\ CvIdle /\ MtlIdle

NextSave ==
    \/ SaveNextFrame /\ UNCHANGED <<metaVars, sepVars, objVars, renderVars, inferVars, asmVars, cvVars, mtlVars>>
    \/ SaveExport /\ UNCHANGED <<metaVars, sepVars, objVars, renderVars, inferVars, asmVars, cvVars, mtlVars>>
    \/ SaveInnerEnd /\ UNCHANGED <<metaVars, sepVars, objVars, renderVars, inferVars, asmVars, cvVars, mtlVars>>

SpecSave == InitSave /\ [][NextSave]_vars

\* the frames start_frame, start_frame + step, ... not exceeding end_frame
SteppedFrames(first, last, step) ==
    {f \in first..last : (f - first) % step = 0}

\* C6: save_pre_frame is the step of the frame: a call that returns has saved
\* one file for each frame start_frame, start_frame + step, ... up to
\* end_frame, named by that frame number and exported at that frame.
C6_StepOfTheFrame ==
    (sopc = "done" /\ save_pre_frame >= 1) =>
        saved = { [filename |-> SaveFilename(output_prefix, f, digits),
                   time |-> << f * save_pre_frame, save_pre_frame >>] :
                    f \in SteppedFrames(so_start_frame, so_end_frame, save_pre_frame) }

\* the call of the docstring, save_objs(dir, "body", 4, 0, 4, 2, true), has
\* run to its end or to an exception
C6_DocstringCall ==
    /\ so_start_frame = 0 /\ so_end_frame = 4 /\ save_pre_frame = 2
    /\ sopc \in {"done", "raised"}

\* C6 on the docstring's call alone: it saves body0000, body0002 and body0004,
\* whatever the module's globals are.
C6_DocstringExample ==
    C6_DocstringCall =>
        /\ sopc = "done"
        /\ {x.filename : x \in saved} =
               {SaveFilename(output_prefix, f, digits) : f \in {0, 2, 4}}


----------------------------------------------------------------------------
(* The two OBJ text filters: simplify, resume, and resume on simplify's output *)

InitObj == ObjInit /\ MetaIdle /\ SepIdle /\ SaveIdle /\ RenderIdle /\ InferIdle /\ AsmIdle /\ CvIdle /\ MtlIdle

NextObj ==
    \/ SimplifyRead /\ UNCHANGED <<metaVars, sepVars, saveVars, renderVars, inferVars, asmVars, cvVars, mtlVars>>
    \/ SimplifyReturn /\ UNCHANGED <<metaVars, sepVars, saveVars, renderVars, inferVars, asmVars, cvVars, mtlVars>>
    \/ ResumeSimplified /\ UNCHANGED <<metaVars, sepVars, saveVars, renderVars, inferVars, asmVars, cvVars, mtlVars>>
    \/ ResumeRead /\ UNCHANGED <<metaVars, sepVars, saveVars, renderVars, inferVars, asmVars, cvVars, mtlVars>>
    \/ ResumeReturn /\ UNCHANGED <<metaVars, sepVars, saveVars, renderVars, inferVars, asmVars, cvVars, mtlVars>>

SpecObj == InitObj /\ [][NextObj]_vars

\* the lines of a file that start with "v " or "f ", in the file's order
VertexAndFaceLines(lines) == SelectSeq(lines, LAMBDA l : l.kw \in {"v", "f"})

\* the lines of a file that start with "v ", in the file's order
VertexLines(lines) == SelectSeq(lines, LAMBDA l : l.kw = "v")

\* the vertex indices a face line refers to
FaceVertices(line) == [k \in 1..Len(line.args) |-> line.args[k][1]]


\* C7: the lines simplify's process_obj returns are one line for each input
\* line starting with "v " or "f ", in the input's order, and nothing else: a
\* vertex line gives a vertex line, a face line a face line that refers to
\* the same vertex indices.
C7_SimplifyKeepsVerticesAndFaces ==
    opc = "simplified" =>
        LET kept == VertexAndFaceLines(input_file)
        IN  /\ Len(new_lines) = Len(kept)
            /\ \A k \in 1..Len(kept) :
                /\ new_lines[k].kw = kept[k].kw
                /\ kept[k].kw = "f" => FaceVertices(new_lines[k]) = FaceVertices(kept[k])
            /\ Len(VertexLines(new_lines)) = Len(VertexLines(input_file))

C7_Witness ==
    /\ opc = "simplified"
    /\ options.compress
    /\ Len(input_file) = 3
    /\ input_file[1].kw = "v"
    /\ input_file[2].kw = "vn"
    /\ input_file[3].kw = "f"
    /\ Len(new_lines) = 2
    /\ new_lines[2] = [kw |-> "f", args |-> << <<1>>, <<2>>, <<3>> >>]

\* resume has returned from a file that simplify wrote, both having changed
\* the axes and neither having scaled
AxesRoundTrip ==
    /\ opc = "resumed"
    /\ simplified_from # << >>
    /\ simplified_from[1].options.change
    /\ simplified_from[1].options.scale = <<1, 1>>
    /\ options.change
    /\ options.scale = <<1, 1>>

\* C8 as claimed: the axis change of simplify followed by the axis change of
\* resume returns every vertex to its original coordinates.
C8_OriginalCoordinates ==
    AxesRoundTrip =>
        LET before == VertexLines(simplified_from[1].lines)
            after == VertexLines(new_lines)
        IN  /\ Len(after) = Len(before)
            /\ \A k \in 1..Len(before) : Floats(after[k]) = Floats(before[k])

\* C8 amended: the two axis changes return every vertex to its original
\* coordinates rounded to six decimals, which are the original coordinates
\* when these have at most six decimals.
C8_RoundedCoordinates ==
    AxesRoundTrip =>
        LET before == VertexLines(simplified_from[1].lines)
            after == VertexLines(new_lines)
        IN  /\ Len(after) = Len(before)
            /\ \A k \in 1..Len(before) : \A c \in 1..3 :
                /\ Floats(after[k])[c] = FormatF(Floats(before[k])[c], <<1, 1>>)
                /\ Floats(before[k])[c] % 10 = 0 =>
                       Floats(after[k])[c] = Floats(before[k])[c]

C8_Witness ==
    /\ AxesRoundTrip
    /\ \E k \in 1..Len(VertexLines(new_lines)) :
        /\ Floats(VertexLines(simplified_from[1].lines)[k]) = <<1234567, 5000000, -2500000>>
        /\ Floats(VertexLines(new_lines)[k]) = <<1234570, 5000000, -2500000>>

\* C9: resume's process_obj returns as many lines as it read, and every line
\* that does not start with "v " is in the output unchanged at its position.
C9_ResumeKeepsOtherLines ==
    opc \in {"resume", "resumed"} =>
        /\ Len(new_lines) = read_pos
        /\ opc = "resumed" => Len(new_lines) = Len(input_file)
        /\ \A k \in 1..Len(new_lines) :
            IF input_file[k].kw # "v"
            THEN new_lines[k] = input_file[k]
            ELSE new_lines[k].kw = "v"

C9_Witness ==
    /\ opc = "resumed"
    /\ simplified_from = << >>
    /\ Len(input_file) = 3
    /\ input_file[1].kw = "vn"
    /\ input_file[2].kw = "v" /\ new_lines[2] # input_file[2]
    /\ input_file[3].kw = "f" /\ new_lines[3] = input_file[3]


----------------------------------------------------------------------------
(* background_render *)

InitRender == RenderInit /\ MetaIdle /\ SepIdle /\ SaveIdle /\ ObjIdle /\ InferIdle /\ AsmIdle /\ CvIdle /\ MtlIdle

NextRender ==
    \/ RenderStart /\ UNCHANGED <<metaVars, sepVars, saveVars, objVars, inferVars, asmVars, cvVars, mtlVars>>
    \/ RenderSleep /\ UNCHANGED <<metaVars, sepVars, saveVars, objVars, inferVars, asmVars, cvVars, mtlVars>>
    \/ RenderAppend /\ UNCHANGED <<metaVars, sepVars, saveVars, objVars, inferVars, asmVars, cvVars, mtlVars>>
    \/ RenderJoin /\ UNCHANGED <<metaVars, sepVars, saveVars, objVars, inferVars, asmVars, cvVars, mtlVars>>
    \/ RenderThread /\ UNCHANGED <<metaVars, sepVars, saveVars, objVars, inferVars, asmVars, cvVars, mtlVars>>

SpecRender == InitRender /\ [][NextRender]_vars

\* C10: at most parallelThreadNum render threads have been started and have
\* not yet finished.
C10_AtMostParallelThreadNum == Cardinality(Alive) <= parallelThreadNum

C10_Witness ==
    /\ parallelThreadNum = 3
    /\ fsLen = 7
    /\ arr_idx = 2
    /\ Cardinality(Alive) = parallelThreadNum

\* C11: a thread of a batch is started only when every thread of all earlier
\* batches has finished and the join loop has passed it, and whenever the
\* script is about to start a thread, every thread started so far has been
\* followed by a time.sleep(1).
C11_BatchBarrier ==
    /\ \A b \in 1..Len(subarrays) : \A k \in 1..Len(subarrays[b]) :
          tpc[subarrays[b][k]] # "none" =>
              \A u \in EarlierTasks(b) : tpc[u] = "done"
    /\ rpc \in {"start", "sleep", "append"} =>
          join_pos = Cardinality(EarlierTasks(arr_idx)) + 1
    /\ rpc = "start" => sleeps = Cardinality(Started)
    /\ sleeps <= Cardinality(Started) /\ Cardinality(Started) <= sleeps + 1

C11_Witness ==
    /\ parallelThreadNum = 2
    /\ fsLen = 5
    /\ arr_idx = 2
    /\ arr_pos = 2
    /\ rpc = "start"
    /\ tpc[2] # "none"
    /\ sleeps = 3

\* C18: the progress counter is the number of render threads that have
\* finished, and the number of tasks when the thread loop has ended.
C18_ProgressCount ==
    /\ pbar_n = Cardinality({t \in 0..(fsLen - 1) : tpc[t] = "done"})
    /\ rpc = "done" => pbar_n = fsLen

(* The main thread and the render threads are threads of the operating
   system, each of which runs when it can; every render command returns. *)
SpecRenderFair == SpecRender /\ WF_vars(NextRender)

\* C17: the thread loop ends, and when it has ended the render command of
\* every scene file has been executed exactly once.
C17_TerminatesEachOnce ==
    /\ <>(rpc = "done")
    /\ [](rpc = "done" => \A t \in 0..(fsLen - 1) : executed[t] = 1)

C17_Witness ==
    /\ rpc = "done"
    /\ parallelThreadNum = 3
    /\ fsLen = 7
    /\ \A t \in 0..6 : executed[t] = 1

----------------------------------------------------------------------------
(* assemble_scenes: prefix and suffix of the names of a directory *)

InitInfer == InferInit /\ MetaIdle /\ SepIdle /\ SaveIdle /\ ObjIdle /\ RenderIdle /\ AsmIdle /\ CvIdle /\ MtlIdle

NextInfer ==
    \/ InferStep /\ UNCHANGED <<metaVars, sepVars, saveVars, objVars, renderVars, asmVars, cvVars, mtlVars>>
    \/ InferEnd /\ UNCHANGED <<metaVars, sepVars, saveVars, objVars, renderVars, asmVars, cvVars, mtlVars>>

SpecInfer == InitInfer /\ [][NextInfer]_vars

\* the names of the listing, whatever their order
ListedSet == {filenames[k] : k \in 1..Len(filenames)}

StartsWith(s, p) == Len(p) <= Len(s) /\ SubSeq(s, 1, Len(p)) = p

EndsWithSeq(s, p) == Len(p) <= Len(s) /\ SubSeq(s, Len(s) - Len(p) + 1, Len(s)) = p

\* the strings every name of the listing begins with, and ends with
PrefixesOfAll ==
    { p \in {SubSeq(filenames[1], 1, k) : k \in 0..Len(filenames[1])} :
        \A f \in ListedSet : StartsWith(f, p) }

SuffixesOfAll ==
    { p \in {SubSeq(filenames[1], Len(filenames[1]) - k + 1, Len(filenames[1])) :
               k \in 0..Len(filenames[1])} :
        \A f \in ListedSet : EndsWithSeq(f, p) }

\* C12: after the loop over a listing that is not empty, the prefix is the
\* longest string every name begins with and the suffix the longest string
\* every name ends with; both are determined by the set of names, whatever
\* the order of the listing.
C12_LongestCommonPrefixAndSuffix ==
    ipc = "inferred" =>
        /\ clothPrefix \in PrefixesOfAll
        /\ \A p \in PrefixesOfAll : Len(p) <= Len(clothPrefix)
        /\ clothSuffix \in SuffixesOfAll
        /\ \A p \in SuffixesOfAll : Len(p) <= Len(clothSuffix)

C12_Witness ==
    /\ ipc = "inferred"
    /\ filenames = << <<"c", "1", "2", ".", "o">>, <<"c", "0", "1", ".", "o">>, <<"c", "1", ".", "o">> >>
    /\ clothPrefix = <<"c">>
    /\ clothSuffix = <<".", "o">>

----------------------------------------------------------------------------
(* assemble_clothes, the script from get_meta_info to the last saved scene *)

InitAssemble == AsmInit /\ SepIdle /\ SaveIdle /\ ObjIdle /\ RenderIdle /\ InferIdle /\ CvIdle /\ MtlIdle

NextAssemble ==
    \/ MetaVisit /\ UNCHANGED <<sepVars, saveVars, objVars, renderVars, inferVars, asmVars, cvVars, mtlVars>>
    \/ MetaReturn /\ UNCHANGED <<sepVars, saveVars, objVars, renderVars, inferVars, asmVars, cvVars, mtlVars>>
    \/ AsmBegin /\ UNCHANGED <<metaVars, sepVars, saveVars, objVars, renderVars, inferVars, cvVars, mtlVars>>
    \/ AsmDelete /\ UNCHANGED <<metaVars, sepVars, saveVars, objVars, renderVars, inferVars, cvVars, mtlVars>>
    \/ AsmEnd /\ UNCHANGED <<metaVars, sepVars, saveVars, objVars, renderVars, inferVars, cvVars, mtlVars>>
    \/ AsmImport /\ UNCHANGED <<metaVars, sepVars, saveVars, objVars, renderVars, inferVars, cvVars, mtlVars>>
    \/ AsmImported /\ UNCHANGED <<metaVars, sepVars, saveVars, objVars, renderVars, inferVars, cvVars, mtlVars>>
    \/ AsmSave /\ UNCHANGED <<metaVars, sepVars, saveVars, objVars, renderVars, inferVars, cvVars, mtlVars>>

SpecAssemble == InitAssemble /\ [][NextAssemble]_vars

\* the files a saved scene of frame f is to hold: its parts 0..parts-1, or
\* the one file without part
FilesOfFrame(f) ==
    IF parts = 0
    THEN {e.file : e \in {x \in entries : x.frame = f /\ ~x.hasPart}}
    ELSE {e.file : e \in {x \in entries : x.frame = f /\ x.hasPart /\ x.part < parts}}

C14_MaterialForEachPart == asm_error # "IndexError"

----------------------------------------------------------------------------
(* fbx_to_obj_sequence: one call of ObjSequnceConvertor.run *)

InitConvert == CvInit /\ MetaIdle /\ SepIdle /\ SaveIdle /\ ObjIdle /\ RenderIdle /\ InferIdle /\ AsmIdle /\ MtlIdle

NextConvert ==
    \/ CvRun /\ UNCHANGED <<metaVars, sepVars, saveVars, objVars, renderVars, inferVars, asmVars, mtlVars>>
    \/ CvAppend /\ UNCHANGED <<metaVars, sepVars, saveVars, objVars, renderVars, inferVars, asmVars, mtlVars>>
    \/ CvReturn /\ UNCHANGED <<metaVars, sepVars, saveVars, objVars, renderVars, inferVars, asmVars, mtlVars>>

SpecConvert == InitConvert /\ [][NextConvert]_vars

\* exportBaseName + str(index).zfill(digits) + ".obj" for the i-th frame of
\* the list, index being i, or i + startNumber when the frames are renumbered
ExportName(i) ==
    exportBaseName
        \o ZFill(StrOfNat(IF renumberFrame THEN i + startNumber ELSE i), cv_digits)
        \o << ".", "o", "b", "j" >>

\* C15: when run has returned, exportDir holds one .obj file for every frame
\* of the list frames, named exportBaseName, the zero-padded index and ".obj".
C15_OneObjPerSampledFrame ==
    cvpc = "returned" =>
        obj_files = {ExportName(i - 1) : i \in 1..Len(cv_frames)}

----------------------------------------------------------------------------
(* createAiStandardSurfaceMaterial: one call *)

InitMaterial ==
    MtlInit /\ MetaIdle /\ SepIdle /\ SaveIdle /\ ObjIdle /\ RenderIdle /\ InferIdle /\ AsmIdle /\ CvIdle

NextMaterial ==
    \/ MtlBase /\ UNCHANGED <<metaVars, sepVars, saveVars, objVars, renderVars, inferVars, asmVars, cvVars>>
    \/ MtlSpecular /\ UNCHANGED <<metaVars, sepVars, saveVars, objVars, renderVars, inferVars, asmVars, cvVars>>
    \/ MtlTransmission /\ UNCHANGED <<metaVars, sepVars, saveVars, objVars, renderVars, inferVars, asmVars, cvVars>>
    \/ MtlSubsurface /\ UNCHANGED <<metaVars, sepVars, saveVars, objVars, renderVars, inferVars, asmVars, cvVars>>
    \/ MtlGeometry /\ UNCHANGED <<metaVars, sepVars, saveVars, objVars, renderVars, inferVars, asmVars, cvVars>>
    \/ MtlReturn /\ UNCHANGED <<metaVars, sepVars, saveVars, objVars, renderVars, inferVars, asmVars, cvVars>>

SpecMaterial == InitMaterial /\ [][NextMaterial]_vars

\* the attribute the field of an entry of the config belongs to
AttrOf(o) ==
    (CHOOSE k \in 1..Len(Fields) :
        Fields[k].section = o.section /\ Fields[k].field = o.field).attr

\* C16: the call returns, and then the attribute of every field present in
\* the config has the configured value, or is connected to a texture of the
\* configured file.
C16_FieldDeterminesAttribute ==
    /\ mtlpc # "raised"
    /\ mtlpc = "returned" =>
         \A o \in config :
             shader[AttrOf(o)] = (IF o.value.kind = "filepath"
                                  THEN ConnectedTo(o.value)
                                  ELSE SetTo(o.value))


====
